---- MODULE Spec2Model ----
(***************************************************************************)
(* ClusterTopology of kafka_cluster_manager/cluster_info/cluster_topology  *)
(* and the replication-group rebalance it drives (stage S0 --> S1).        *)
(*                                                                         *)
(* Strings the code inspects character by character (hostnames, and the    *)
(* replication-group ids parsed out of them) are sequences of one-letter   *)
(* strings.  Topic ids are plain strings, ordered by their position in the *)
(* sorted list topic_ids.                                                  *)
(***************************************************************************)
EXTENDS Integers, Sequences, FiniteSets

VARIABLES
    hostname,            \* zookeeper: broker id -> Broker.hostname
    initial_assignment,  \* self._initial_assignment: (topic, index) -> broker ids
    max_changes,         \* the argument of reassign_partitions
    pc,                  \* position in __init__ / reassign_partitions
    topics,              \* self.topics: topic id -> Topic.partitions
    brokers,             \* self.brokers: broker id -> Broker.partitions
    rgs,                 \* self.rgs: rg id -> ReplicationGroup.brokers
    partitions,          \* self.partitions: (topic, index) -> Partition.replicas
    relocations,         \* replicas moved so far by rebalance_replicas
    exhausted,           \* (topic, source rg, destination rg) given up on
    imbal_before,        \* reassign_partitions: imbal before the rebalance
    imbal_after          \* reassign_partitions: imbal after the rebalance

vars == <<hostname, initial_assignment, max_changes, pc, topics, brokers, rgs,
          partitions, relocations, exhausted, imbal_before, imbal_after>>

\* ---------------------------------------------------------------- bounds

\* max_changes is drawn from 0 .. MaxChanges
MaxChanges == 2

\* partitions of an arbitrary cluster have 1 .. MaxReplicas replicas
MaxReplicas == 2

\* ------------------------------------------------------- generic helpers

EmptyMap == [x \in {} |-> {}]

Range(s) == {s[i] : i \in DOMAIN s}

RECURSIVE SumOver(_, _)
\* the sum of f[x] over the finite set S
SumOver(f, S) ==
    IF S = {} THEN 0
    ELSE LET x == CHOOSE y \in S : TRUE
         IN  f[x] + SumOver(f, S \ {x})

Min(S) == CHOOSE x \in S : \A y \in S : x <= y
Max(S) == CHOOSE x \in S : \A y \in S : x >= y

\* ------------------------------------------------------ character strings

\* the characters hostnames are written in, in code-point order
Alphabet == <<"-", ".", "1", "2", "3", "4", "a", "b", "c", "d", "g", "h",
              "k", "l", "o", "r", "s", "t">>

Ord(c) == CHOOSE i \in DOMAIN Alphabet : Alphabet[i] = c

\* s < t in Python's string order
StrLess(s, t) ==
    \E i \in 1 .. (Len(s) + 1) :
        /\ i <= Len(t)
        /\ \A j \in 1 .. (i - 1) : s[j] = t[j]
        /\ (i = Len(s) + 1 \/ Ord(s[i]) < Ord(t[i]))

\* needle in s
Contains(s, needle) ==
    \E i \in 0 .. (Len(s) - Len(needle)) :
        SubSeq(s, i + 1, i + Len(needle)) = needle

Positions(s, c) == {i \in DOMAIN s : s[i] = c}

\* s.rsplit(sep, 1)
RSplit1(s, sep) ==
    IF Positions(s, sep) = {} THEN <<s>>
    ELSE LET i == Max(Positions(s, sep))
         IN  <<SubSeq(s, 1, i - 1), SubSeq(s, i + 1, Len(s))>>

\* s.split(sep, 1)
Split1(s, sep) ==
    IF Positions(s, sep) = {} THEN <<s>>
    ELSE LET i == Min(Positions(s, sep))
         IN  <<SubSeq(s, 1, i - 1), SubSeq(s, i + 1, Len(s))>>

LOCALHOST == <<"l", "o", "c", "a", "l", "h", "o", "s", "t">>
RG1 == <<"r", "g", "1">>
RG2 == <<"r", "g", "2">>
RG3 == <<"r", "g", "3">>

\* what _get_replication_group_id yields when it ends the process
SysExit == <<"sys.exit(1)">>

\* a faulty variant: every unparsable hostname is treated as a local one
GetReplicationGroupIdNoExit(broker) ==
    LET parts == RSplit1(broker.hostname, "-")
    IN  IF Len(parts) >= 2 THEN Split1(parts[2], ".")[1]
        ELSE IF broker.id % 3 = 0 THEN RG1
        ELSE IF broker.id % 3 = 1 THEN RG2
        ELSE RG3

\* ClusterTopology._get_replication_group_id: the token after the last "-" up
\* to its first "."; without "-", a local host gets the group of its id
\* modulo 3 and any other host ends the process
_get_replication_group_id(broker) ==
    LET parts == RSplit1(broker.hostname, "-")
    IN  IF Len(parts) >= 2 THEN Split1(parts[2], ".")[1]
        ELSE IF Contains(broker.hostname, LOCALHOST)
             THEN IF broker.id % 3 = 0 THEN RG1
                  ELSE IF broker.id % 3 = 1 THEN RG2
                  ELSE RG3
             ELSE SysExit

\* ------------------------------------------------------- the constructor

\* zk.get_brokers() keys and the topics of the assignment, as __init__ reads them
broker_ids == DOMAIN hostname
topic_ids == {key[1] : key \in DOMAIN initial_assignment}

\* ClusterTopology._build_topics: one Topic, without partitions, per topic id
_build_topics ==
    /\ pc = "init"
    /\ topics' = [t \in topic_ids |-> {}]
    /\ pc' = "topics"
    /\ UNCHANGED <<hostname, initial_assignment, max_changes, brokers, rgs,
                   partitions, relocations, exhausted, imbal_before, imbal_after>>

\* ClusterTopology._build_brokers: one Broker, without partitions, per broker id
_build_brokers ==
    /\ pc = "topics"
    /\ brokers' = [b \in broker_ids |-> {}]
    /\ pc' = "brokers"
    /\ UNCHANGED <<hostname, initial_assignment, max_changes, topics, rgs,
                   partitions, relocations, exhausted, imbal_before, imbal_after>>

\* the Broker object of id b: its id and the hostname zookeeper holds for it
Broker(b) == [id |-> b, hostname |-> hostname[b]]

\* the groups _build_replication_groups has made once it has visited the brokers ids
GroupsOf(ids) ==
    [g \in {_get_replication_group_id(Broker(b)) : b \in ids} |->
        {b \in ids : _get_replication_group_id(Broker(b)) = g}]

\* ClusterTopology._build_replication_groups: every broker is classified and
\* added to its group; the first broker that cannot be classified ends the
\* process, with the groups of the brokers visited before it (in id order)
_build_replication_groups ==
    /\ pc = "brokers"
    /\ LET failing == {b \in DOMAIN brokers :
                          _get_replication_group_id(Broker(b)) = SysExit}
       IN  IF failing = {}
           THEN /\ rgs' = GroupsOf(DOMAIN brokers)
                /\ pc' = "rgs"
           ELSE /\ rgs' = GroupsOf({b \in DOMAIN brokers : b < Min(failing)})
                /\ pc' = "exit"
    /\ UNCHANGED <<hostname, initial_assignment, max_changes, topics, brokers,
                   partitions, relocations, exhausted, imbal_before, imbal_after>>

\* a faulty variant: every slot of a partition is resolved from its first broker id
BuildReplicasFirstOnly(replica_ids) ==
    [i \in DOMAIN replica_ids |-> replica_ids[1]]

\* the replicas list _build_partitions makes of a partition's broker ids
BuildReplicas(replica_ids) ==
    [i \in DOMAIN replica_ids |-> replica_ids[i]]

\* a faulty variant: the partition is registered on its leader only
RegisteredOnLeader(replica_ids) == {replica_ids[1]}

\* the brokers _build_partitions registers a partition on
RegisteredOn(replica_ids) == Range(replica_ids)

\* ClusterTopology._build_partitions: every partition of the assignment is
\* created and registered on its topic and on each of its brokers
_build_partitions ==
    /\ pc = "rgs"
    /\ partitions' = [key \in DOMAIN initial_assignment |->
                        BuildReplicas(initial_assignment[key])]
    /\ topics' = [t \in DOMAIN topics |->
                    topics[t] \cup {key \in DOMAIN initial_assignment : key[1] = t}]
    /\ brokers' = [b \in DOMAIN brokers |->
                    brokers[b] \cup {key \in DOMAIN initial_assignment :
                                        b \in RegisteredOn(initial_assignment[key])}]
    /\ pc' = "built"
    /\ UNCHANGED <<hostname, initial_assignment, max_changes, rgs, relocations,
                   exhausted, imbal_before, imbal_after>>

\* ------------------------------------------------ derived replica counts

\* the replica slots <<partition key, position>> of the partitions keys
SlotsOf(keys) == UNION {{key} \X (DOMAIN partitions[key]) : key \in keys}

\* the number of replicas of topic t held by brokers of replication group g
ReplicaCount(t, g) ==
    Cardinality({sl \in SlotsOf(topics[t]) : partitions[sl[1]][sl[2]] \in rgs[g]})

\* the number of replicas of topic t
TotalReplicas(t) ==
    SumOver([key \in topics[t] |-> Len(partitions[key])], topics[t])

\* the number of brokers of all replication groups
TotalBrokers == SumOver([g \in DOMAIN rgs |-> Cardinality(rgs[g])], DOMAIN rgs)

\* the groups whose proportional share of topic t lies exactly between two integers
HalfwayGroups(t) ==
    {g \in DOMAIN rgs :
        2 * ((TotalReplicas(t) * Cardinality(rgs[g])) % TotalBrokers) = TotalBrokers}

\* the ideal target of group g for topic t: the topic's replicas in proportion
\* to the group's share of the brokers, rounded to the nearest integer; of the
\* groups exactly halfway, the lower ids round up and the higher ids down
IdealTarget(t, g) ==
    LET num   == TotalReplicas(t) * Cardinality(rgs[g])
        low   == num \div TotalBrokers
        rem   == num % TotalBrokers
        tied  == HalfwayGroups(t)
        below == {h \in tied : StrLess(h, g)}
    IN  IF 2 * rem < TotalBrokers THEN low
        ELSE IF 2 * rem > TotalBrokers THEN low + 1
        ELSE IF 2 * Cardinality(below) < Cardinality(tied) THEN low + 1
        ELSE low

Surplus(t, g) == ReplicaCount(t, g) - IdealTarget(t, g)

\* step 3: a topic with fewer than 2 populated groups or without replicas is skipped
Skipped(t) == Cardinality(DOMAIN rgs) < 2 \/ TotalReplicas(t) = 0

\* topic ids in the order of the sorted list topic_ids
TopicOrder == <<"clicks", "orders">>
TopicRank(t) == CHOOSE i \in DOMAIN TopicOrder : TopicOrder[i] = t
TopicLess(t, u) == TopicRank(t) < TopicRank(u)

\* ------------------------------------------------------- imbalance score

\* get_replication_group_imbalance_stats: per topic, the dispersion of the
\* groups' replica counts c.  With n groups the standard deviation is
\* sqrt(n * sum(c^2) - sum(c)^2) / n; the value kept is the integer under the root
ImbalanceStats ==
    [t \in DOMAIN topics |->
        LET c == [g \in DOMAIN rgs |-> ReplicaCount(t, g)]
        IN  Cardinality(DOMAIN rgs)
                * SumOver([g \in DOMAIN rgs |-> c[g] * c[g]], DOMAIN rgs)
            - SumOver(c, DOMAIN rgs) * SumOver(c, DOMAIN rgs)]

\* sqrt(a) + sqrt(b) <= sqrt(c) + sqrt(d), for naturals, without rounding:
\* both sides are squared twice
RootSumLeq(a, b, c, d) ==
    LET k == (c + d) - (a + b)
        m == (4 * a * b - k * k) - 4 * c * d
    IN  IF k >= 0
        THEN m <= 0 \/ m * m <= 4 * k * k * 4 * c * d
        ELSE (-m) - 2 * k * k >= 0
             /\ 4 * k * k * 4 * a * b <= ((-m) - 2 * k * k) * ((-m) - 2 * k * k)

\* the cluster-wide score (the sum of the topics' standard deviations) of
\* the statistics x is at most that of y; both are over the same groups
ScoreLeq(x, y) ==
    LET at(f, i) == IF i <= Len(TopicOrder) /\ TopicOrder[i] \in DOMAIN f
                    THEN f[TopicOrder[i]] ELSE 0
    IN  RootSumLeq(at(x, 1), at(x, 2), at(y, 1), at(y, 2))

\* ------------------------------------------------------ rebalance_replicas

\* the budget rebalance_replication_groups hands to rebalance_replicas: {n}
\* for a budget of n relocations, {} for none; the call passes the
\* partitions, the brokers and the groups, and no budget
RebalanceBudget == {}

\* the loop of step 2 goes on while the budget, if there is one, is not used up
BudgetLeft(budget) == \A n \in budget : relocations < n

\* (topic, source, destination): the source is more than 1 over its target, the
\* destination is under its target, and the pair has not been given up on
Pairs ==
    {pr \in {t \in DOMAIN topics : ~Skipped(t)} \X (DOMAIN rgs) \X (DOMAIN rgs) :
        /\ Surplus(pr[1], pr[2]) > 1
        /\ Surplus(pr[1], pr[3]) < 0
        /\ pr \notin exhausted}

\* step 2a: source a comes before source b
SourceBefore(a, b) ==
    \/ Surplus(a[1], a[2]) > Surplus(b[1], b[2])
    \/ /\ Surplus(a[1], a[2]) = Surplus(b[1], b[2])
       /\ \/ TopicLess(a[1], b[1])
          \/ a[1] = b[1] /\ StrLess(a[2], b[2])

Sources ==
    {src \in {<<pr[1], pr[2]>> : pr \in Pairs} :
        \A other \in {<<pr[1], pr[2]>> : pr \in Pairs} : ~SourceBefore(other, src)}

\* step 2b: the destinations of source src with the deepest deficit, lowest id first
Destinations(src) ==
    LET cands == {pr[3] : pr \in {q \in Pairs : q[1] = src[1] /\ q[2] = src[2]}}
    IN  {d \in cands :
            \A e \in cands :
                ~ \/ Surplus(src[1], e) < Surplus(src[1], d)
                  \/ Surplus(src[1], e) = Surplus(src[1], d) /\ StrLess(e, d)}

\* step 2c: the (partition, slot) pairs of topic t whose slot is held in the
\* source s while the partition holds no replica in the destination d
EligibleSlots(t, s, d) ==
    {sl \in SlotsOf(topics[t]) :
        /\ partitions[sl[1]][sl[2]] \in rgs[s]
        /\ Range(partitions[sl[1]]) \cap rgs[d] = {}}

\* step 2c: non-leader slots before leader slots, then the lowest partition
\* index; which of several such slots of one partition is not laid down
PreferredSlots(t, s, d) ==
    LET all   == EligibleSlots(t, s, d)
        pool  == IF \E sl \in all : sl[2] > 1 THEN {sl \in all : sl[2] > 1} ELSE all
    IN  {sl \in pool : \A other \in pool : sl[1][2] <= other[1][2]}

\* step 2d: the broker of d with the fewest replicas, lowest id first
DestinationBrokers(d) ==
    {b \in rgs[d] :
        \A c \in rgs[d] :
            ~ \/ Cardinality(brokers[c]) < Cardinality(brokers[b])
              \/ Cardinality(brokers[c]) = Cardinality(brokers[b]) /\ c < b}

\* the moves steps 2a-2d allow next
Moves ==
    UNION {UNION {{[topic |-> src[1], source |-> src[2], destination |-> d,
                    slot |-> sl, broker |-> b] :
                        sl \in PreferredSlots(src[1], src[2], d),
                        b \in DestinationBrokers(d)} :
                  d \in Destinations(src)} :
           src \in Sources}

\* the (topic, source, destination) steps 2a and 2b settle on
ChosenPairs == UNION {{<<src[1], src[2], d>> : d \in Destinations(src)} : src \in Sources}

\* a faulty variant: the new broker is appended, the old one stays
ReplaceSlotAppend(replicas, position, broker) == Append(replicas, broker)

\* step 2d: the chosen slot's broker reference is replaced
ReplaceSlot(replicas, position, broker) == [replicas EXCEPT ![position] = broker]

\* a faulty variant: a pair without eligible partition is not recorded
MarkPairNot(pairs, pr) == pairs

\* edge case of step 2c: the pair is marked exhausted for this run
MarkPair(pairs, pr) == pairs \cup {pr}

\* ClusterTopology.reassign_partitions up to its call of
\* rebalance_replication_groups: rebalance_option, max_changes and to_execute
\* are not read
reassign_partitions ==
    /\ pc = "built"
    /\ pc' = "balancing"
    /\ imbal_before' = ImbalanceStats
    /\ relocations' = 0
    /\ exhausted' = {}
    /\ UNCHANGED <<hostname, initial_assignment, max_changes, topics, brokers,
                   rgs, partitions, imbal_after>>

\* one turn of the loop of step 2 that moves a replica (steps 2c-2e)
Relocate ==
    /\ pc = "balancing"
    /\ BudgetLeft(RebalanceBudget)
    /\ \E m \in Moves :
        LET key == m.slot[1]
            old == partitions[key][m.slot[2]]
        IN  /\ partitions' = [partitions EXCEPT
                                ![key] = ReplaceSlot(@, m.slot[2], m.broker)]
            /\ brokers' = [brokers EXCEPT ![old] = @ \ {key},
                                          ![m.broker] = @ \cup {key}]
    /\ relocations' = relocations + 1
    /\ UNCHANGED <<hostname, initial_assignment, max_changes, pc, topics, rgs,
                   exhausted, imbal_before, imbal_after>>

\* one turn of the loop of step 2 that finds no partition to move
MarkExhausted ==
    /\ pc = "balancing"
    /\ BudgetLeft(RebalanceBudget)
    /\ \E pr \in ChosenPairs :
        /\ PreferredSlots(pr[1], pr[2], pr[3]) = {}
        /\ exhausted' = MarkPair(exhausted, pr)
    /\ UNCHANGED <<hostname, initial_assignment, max_changes, pc, topics, brokers,
                   rgs, partitions, relocations, imbal_before, imbal_after>>

\* the loop of step 2 ends; reassign_partitions displays the statistics and returns
Return ==
    /\ pc = "balancing"
    /\ ~BudgetLeft(RebalanceBudget) \/ Pairs = {}
    /\ imbal_after' = ImbalanceStats
    /\ pc' = "done"
    /\ UNCHANGED <<hostname, initial_assignment, max_changes, topics, brokers,
                   rgs, partitions, relocations, exhausted, imbal_before>>

\* ------------------------------------------------------------ the inputs

\* hostnames as zookeeper reports them
HostIn(rg) == <<"k", "-">> \o rg
HostInDc(rg) == <<"a", "-", "k", "-">> \o rg \o <<".", "d", "c">>
DB42 == <<"d", "b", "4", "2">>
HostNames == {HostIn(RG1), HostInDc(RG2), LOCALHOST, DB42}

\* the lists of n distinct brokers of B
InjectiveLists(B, n) ==
    {l \in [1 .. n -> B] : \A i, j \in 1 .. n : i # j => l[i] # l[j]}

\* those that list the brokers in ascending order from some position on
RotatedLists(B, n) ==
    {l \in InjectiveLists(B, n) :
        Cardinality({i \in 1 .. n : l[i] > l[(i % n) + 1]}) <= 1}

\* the brokers of group g under the hostnames hosts
MembersOf(hosts, g) ==
    {b \in DOMAIN hosts :
        _get_replication_group_id([id |-> b, hostname |-> hosts[b]]) = g}

\* those of them that are led by their lowest or by their highest broker
LedLists(B, n) ==
    {l \in RotatedLists(B, n) :
        (\A i \in 1 .. n : l[1] <= l[i]) \/ (\A i \in 1 .. n : l[1] >= l[i])}

\* the replicas the assignment a gives the brokers members
AssignedTo(a, members) ==
    SumOver([key \in DOMAIN a |->
                Cardinality({i \in DOMAIN a[key] : a[key][i] \in members})],
            DOMAIN a)

\* any hostnames on three brokers, one partition of 1 .. MaxReplicas replicas
GenericBrokers == 0 .. 2
GenericKeys == {<<"orders", 0>>}
InitGeneric ==
    /\ hostname \in [GenericBrokers -> HostNames]
    /\ initial_assignment \in
        [GenericKeys -> UNION {InjectiveLists(GenericBrokers, n) : n \in 1 .. MaxReplicas}]

\* rg1, rg2 and rg3 of 2 brokers each; "orders" has 3 partitions of 3 replicas,
\* 5 of them in rg1, 3 in rg2 and 1 in rg3
ExampleHosts ==
    [b \in 0 .. 5 |-> CASE b = 0 -> HostIn(RG1)  [] b = 1 -> HostInDc(RG1)
                        [] b = 2 -> HostIn(RG2)  [] b = 3 -> HostInDc(RG2)
                        [] b = 4 -> HostIn(RG3)  [] b = 5 -> HostInDc(RG3)]
ExampleKeys == {"orders"} \X (0 .. 2)
ExampleRG1 == MembersOf(ExampleHosts, RG1)
ExampleRG2 == MembersOf(ExampleHosts, RG2)
ExampleRG3 == MembersOf(ExampleHosts, RG3)
ExampleLists == LedLists(0 .. 5, 3)
ExampleAssignments ==
    {a \in [ExampleKeys -> ExampleLists] :
        /\ AssignedTo(a, ExampleRG1) = 5
        /\ AssignedTo(a, ExampleRG2) = 3
        /\ AssignedTo(a, ExampleRG3) = 1}
InitExample ==
    /\ hostname = ExampleHosts
    /\ initial_assignment \in ExampleAssignments

\* rg1 of 4 brokers and rg2 of 1; "orders" has 3 partitions of 1 to 3
\* replicas, 3 of them in rg1 and 3 in rg2
SkewedHosts == [b \in 0 .. 4 |-> IF b < 4 THEN HostIn(RG1) ELSE HostInDc(RG2)]
SkewedKeys == {"orders"} \X (0 .. 2)
SkewedRG1 == MembersOf(SkewedHosts, RG1)
SkewedRG2 == MembersOf(SkewedHosts, RG2)
SkewedLists == UNION {RotatedLists(0 .. 4, n) : n \in 1 .. 3}
SkewedAssignments ==
    {a \in [SkewedKeys -> SkewedLists] :
        /\ AssignedTo(a, SkewedRG1) = 3
        /\ AssignedTo(a, SkewedRG2) = 3}
InitSkewed ==
    /\ hostname = SkewedHosts
    /\ initial_assignment \in SkewedAssignments

\* a local cluster of 3 brokers, one per group; two topics of 3 partitions
\* with 1 replica each
LocalHosts == [b \in 0 .. 2 |-> LOCALHOST]
LocalKeys == {"orders", "clicks"} \X (0 .. 2)
InitLocal ==
    /\ hostname = LocalHosts
    /\ initial_assignment \in [LocalKeys -> InjectiveLists(0 .. 2, 1)]

\* the same local cluster; "orders" has 3 partitions of 2 replicas
PairedKeys == {"orders"} \X (0 .. 2)
InitPaired ==
    /\ hostname = LocalHosts
    /\ initial_assignment \in [PairedKeys -> InjectiveLists(0 .. 2, 2)]

Init ==
    /\ \/ InitGeneric
       \/ InitExample
       \/ InitSkewed
       \/ InitLocal
       \/ InitPaired
    /\ max_changes \in 0 .. MaxChanges
    /\ pc = "init"
    /\ topics = EmptyMap
    /\ brokers = EmptyMap
    /\ rgs = EmptyMap
    /\ partitions = EmptyMap
    /\ relocations = 0
    /\ exhausted = {}
    /\ imbal_before = EmptyMap
    /\ imbal_after = EmptyMap

Next ==
    \/ _build_topics
    \/ _build_brokers
    \/ _build_replication_groups
    \/ _build_partitions
    \/ reassign_partitions
    \/ Relocate
    \/ MarkExhausted
    \/ Return

Spec == Init /\ [][Next]_vars

\* ------------------------------------------------------------ properties

\* the constructor has finished
Built == pc \in {"built", "balancing", "done"}

\* hostname h has no "-" to parse a group from and is no local host
Unclassifiable(h) == Positions(h, "-") = {} /\ ~Contains(h, LOCALHOST)

\* hostname h has no "-" to parse a group from and is a local host
LocalFallback(h) == Positions(h, "-") = {} /\ Contains(h, LOCALHOST)

\* the replicas of topic t the current assignment keeps in the group named g
CountIn(t, g) == IF g \in DOMAIN rgs THEN ReplicaCount(t, g) ELSE 0

\* C1: a run performs at most max_changes relocations; with max_changes = 0 it
\* performs none and every partition keeps the replicas of the initial assignment
C1_BudgetRespected ==
    pc \in {"balancing", "done"} =>
        /\ relocations <= max_changes
        /\ max_changes = 0 =>
              \A key \in DOMAIN partitions : partitions[key] = initial_assignment[key]

\* C2: no partition's replica sequence holds the same broker twice, after
\* construction, after every relocation and after balancing
C2_NoDuplicateReplicas ==
    \A key \in DOMAIN partitions :
        \A i, j \in DOMAIN partitions[key] :
            i # j => partitions[key][i] # partitions[key][j]

\* C2's case: a run has ended after two relocations
C2_Witness == pc = "done" /\ relocations >= 2

\* C3: every partition keeps the number of replicas the initial assignment gives
\* it, and a relocation changes exactly one slot of one partition
C3_ReplicationFactorKept ==
    /\ [](\A key \in DOMAIN partitions :
            Len(partitions[key]) = Len(initial_assignment[key]))
    /\ [][relocations' # relocations /\ pc = "balancing" =>
            /\ DOMAIN partitions' = DOMAIN partitions
            /\ \A key \in DOMAIN partitions :
                  DOMAIN partitions'[key] = DOMAIN partitions[key]
            /\ Cardinality({sl \in SlotsOf(DOMAIN partitions) :
                  partitions'[sl[1]][sl[2]] # partitions[sl[1]][sl[2]]}) = 1]_vars

\* C3's case: a replica other than the leader has been moved
C3_Witness ==
    /\ relocations >= 1
    /\ \E key \in DOMAIN partitions :
          \E i \in DOMAIN partitions[key] :
              i > 1 /\ partitions[key][i] # initial_assignment[key][i]

\* C4: with max_changes > 0 and at least 2 populated groups, the cluster-wide
\* imbalance score after balancing is at most the score before it
C4_ScoreNotWorse ==
    pc = "done" /\ max_changes > 0 /\ Cardinality(DOMAIN rgs) >= 2 =>
        ScoreLeq(imbal_after, imbal_before)

\* C5: on the example (rg1, rg2, rg3 of 2 brokers, "orders" on 5, 3 and 1
\* replicas) a run with max_changes = 2 performs exactly 2 relocations and ends
\* with 3 replicas in each group
C5_ExampleBalanced ==
    pc = "done" /\ hostname = ExampleHosts /\ max_changes = 2 =>
        /\ relocations = 2
        /\ CountIn("orders", RG1) = 3
        /\ CountIn("orders", RG2) = 3
        /\ CountIn("orders", RG3) = 3

\* C6: when the run returns with relocations to spare, every topic that was not
\* skipped has every group within 1 of its ideal target, above and below
C6_WithinTolerance ==
    pc = "done" /\ relocations < max_changes =>
        \A t \in DOMAIN topics :
            ~Skipped(t) =>
                \A g \in DOMAIN rgs : Surplus(t, g) <= 1 /\ Surplus(t, g) >= -1

\* C7: a broker whose hostname has no "-" and is no local host ends the
\* construction before any partition is built or moved; a local host without
\* "-" is put in the group of its id modulo 3 and construction goes on
C7_ClassificationFailure ==
    /\ (\E b \in DOMAIN hostname : Unclassifiable(hostname[b])) =>
          /\ pc \in {"init", "topics", "brokers", "exit"}
          /\ partitions = EmptyMap
          /\ relocations = 0
    /\ pc = "exit" => \E b \in DOMAIN hostname : Unclassifiable(hostname[b])
    /\ Built =>
          \A b \in DOMAIN hostname :
              LocalFallback(hostname[b]) =>
                  LET g == IF b % 3 = 0 THEN RG1 ELSE IF b % 3 = 1 THEN RG2 ELSE RG3
                  IN  g \in DOMAIN rgs /\ b \in rgs[g]

\* C7's case: the construction has ended on an unclassifiable broker that
\* came after a local one
C7_Witness ==
    /\ pc = "exit"
    /\ \E b, c \in DOMAIN hostname :
          b < c /\ LocalFallback(hostname[b]) /\ Unclassifiable(hostname[c])

\* C8: every step of the balancer has exactly one choice of source, destination,
\* partition, replica slot and destination broker
C8_Deterministic ==
    pc = "balancing" => Cardinality(Moves) <= 1 /\ Cardinality(ChosenPairs) <= 1

\* what is left for the loop of step 2 to do: the replicas that put a group
\* more than 1 over its target, and the (topic, source, destination) not given up on
LoopRank ==
    SumOver([tg \in (DOMAIN topics) \X (DOMAIN rgs) |->
                IF ~Skipped(tg[1]) /\ Surplus(tg[1], tg[2]) > 1
                THEN Surplus(tg[1], tg[2]) - 1 ELSE 0],
            (DOMAIN topics) \X (DOMAIN rgs))
    + Cardinality(((DOMAIN topics) \X (DOMAIN rgs) \X (DOMAIN rgs)) \ exhausted)

\* some step that changes the state can be taken: the steps of the
\* constructor and the call of the balancer always can, the loop of step 2
\* when it may return, has a move to make or has a pair to mark
CanProceed ==
    \/ pc \in {"init", "topics", "brokers", "rgs", "built"}
    \/ /\ pc = "balancing"
       /\ \/ ~BudgetLeft(RebalanceBudget)
          \/ Pairs = {}
          \/ Moves # {}
          \/ \E pr \in ChosenPairs :
                /\ PreferredSlots(pr[1], pr[2], pr[3]) = {}
                /\ MarkPair(exhausted, pr) # exhausted

\* C9: every run ends: until the constructor has exited or the loop has
\* returned a step that changes the state can be taken, and every turn of the
\* loop relocates a replica or marks a pair exhausted, which leaves it less to do
C9_Terminates ==
    /\ [](pc \in {"done", "exit"} \/ CanProceed)
    /\ [][pc = "balancing" /\ pc' = "balancing" =>
            /\ \/ relocations' = relocations + 1 /\ exhausted' = exhausted
               \/ relocations' = relocations /\ exhausted' # exhausted
                    /\ exhausted \subseteq exhausted'
            /\ LoopRank' < LoopRank]_vars

\* C9's case: the loop has returned although a source more than 1 over its
\* target found no partition to give to a destination
C9_Witness ==
    /\ pc = "done"
    /\ exhausted # {}
    /\ \E pr \in exhausted : Surplus(pr[1], pr[2]) > 1

\* C10: once built, a broker's partition set holds exactly the partitions that
\* list it, every replica is a known broker of exactly one group, and every
\* partition is registered on the topic of its key and on no other
C10_BackReferences ==
    Built =>
        /\ \A b \in DOMAIN brokers :
              \A key \in DOMAIN partitions :
                  key \in brokers[b] <=> b \in Range(partitions[key])
        /\ \A key \in DOMAIN partitions :
              \A b \in Range(partitions[key]) :
                  /\ b \in DOMAIN brokers
                  /\ Cardinality({g \in DOMAIN rgs : b \in rgs[g]}) = 1
        /\ \A key \in DOMAIN partitions :
              \A t \in DOMAIN topics : key \in topics[t] <=> t = key[1]
        /\ \A b \in DOMAIN brokers : brokers[b] \subseteq DOMAIN partitions

\* C10's case: a replica has been moved between two brokers
C10_Witness == pc = "balancing" /\ relocations >= 1

====
